---- MODULE Spec2Model ----
(***************************************************************************)
(* The pintk session object, pint.pintk.pulsar.Pulsar: the full and the    *)
(* selected TOA tables, the set of deleted TOA indices, the pre-fit and    *)
(* post-fit models with their residuals, and the jump bookkeeping.         *)
(***************************************************************************)
EXTENDS Integers, Sequences, FiniteSets, TLC

\* ------------------------------------------------------------------ bounds
\* Number of TOAs in the tim file; their "index" column is 0..NToas-1.
NToas == 3
\* Number of observatories the TOAs of the tim file come from.
NObs == 2
\* Largest number of jumps the model holds at once.
MaxJumps == 3
\* Largest number of successful fits chained from the loaded model.
MaxFits == 2
\* Largest number of calls in a session that mixes every operation.
MaxCalls == 3

Indices == 0 .. (NToas - 1)

\* ------------------------------------------------------------- the tim file
\* Row i of the tim file: its identity index, its observatory and its time.
\* Successive TOAs alternate between the observatories, so that the table
\* grouped by observatory is not in index order.
TimFile == [i \in Indices |-> [index |-> i, obs |-> i % NObs, mjd |-> 2 * i + 1]]

\* toa_table.group_by("obs"): the rows sorted by observatory, rows of one
\* observatory in the order they had (the sort is stable).
RECURSIVE group_by_obs_from(_, _)
group_by_obs_from(rows, o) ==
    IF o >= NObs THEN << >>
    ELSE SelectSeq(rows, LAMBDA r : r.obs = o) \o group_by_obs_from(rows, o + 1)

group_by_obs(rows) == group_by_obs_from(rows, 0)

\* A TOA table is either None or a sequence of rows.
NoneTable == [none |-> TRUE, rows |-> << >>]
Table(rows) == [none |-> FALSE, rows |-> rows]

\* get_TOAs(timfile): every row of the file, grouped by observatory.
get_TOAs == Table(group_by_obs([p \in 1 .. NToas |-> TimFile[p - 1]]))

\* table["index"]: the index column, and the set of its values.
index_column(t) == [p \in 1 .. Len(t.rows) |-> t.rows[p].index]
index_set(t) == {t.rows[p].index : p \in 1 .. Len(t.rows)}

\* Boolean arrays of length n (a selection mask over a table of n rows).
Masks(n) == [1 .. n -> BOOLEAN]
zeros(n) == [p \in 1 .. n |-> FALSE]

\* table[mask]: the rows at which mask is True, in table order.
RECURSIVE take_from(_, _, _)
take_from(rows, mask, p) ==
    IF p > Len(rows) THEN << >>
    ELSE (IF mask[p] THEN << rows[p] >> ELSE << >>) \o take_from(rows, mask, p + 1)

take(rows, mask) == take_from(rows, mask, 1)

\* ---------------------------------------------------------------- deletion
\* np.where(toa_table["index"] == ii)[0]: the positions holding index ii.
where_index(rows, ii) == {p \in 1 .. Len(rows) : rows[p].index = ii}

first(S) == CHOOSE p \in S : \A q \in S : p <= q

\* del_inds of Pulsar._delete_TOAs: for each deleted index the first
\* position that holds it.
del_inds(rows, del) ==
    {first(where_index(rows, ii)) : ii \in {jj \in del : where_index(rows, jj) # {}}}

\* A deletion that takes the deleted index for the row position.
delete_rows_by_position(rows, del) ==
    IF Cardinality({p \in 1 .. Len(rows) : (p - 1) \in del}) < Len(rows)
    THEN Table(group_by_obs(take(rows, [p \in 1 .. Len(rows) |-> (p - 1) \notin del])))
    ELSE NoneTable

\* A deletion that returns an empty table where the code returns None.
delete_rows_never_none(rows, del) ==
    Table(group_by_obs(take(rows, [p \in 1 .. Len(rows) |-> p \notin del_inds(rows, del)])))

\* Pulsar._delete_TOAs(toa_table): the table without the rows of the deleted
\* indices, regrouped by observatory; None when no row is left.
delete_rows(rows, del) ==
    IF Cardinality(del_inds(rows, del)) < Len(rows)
    THEN Table(group_by_obs(take(rows, [p \in 1 .. Len(rows) |-> p \notin del_inds(rows, del)])))
    ELSE NoneTable

\* A deleted set that is overwritten instead of extended.
update_deleted_overwrite(del, indices) == indices

\* self.deleted |= set(indices)
update_deleted(del, indices) == del \cup indices

\* TOAs.ntoas, len(self.table): not defined on a table that is None.
ntoas_defined(t) == ~t.none
ntoas(t) == Len(t.rows)

\* self.deleted = set([]) of Pulsar.reset_TOAs
reset_deleted == {}

\* newselected of Pulsar.delete_TOAs: zip of the new index column with the
\* mask passed in, keeping the mask values of the indices not in `indices`.
RECURSIVE newselected_from(_, _, _, _)
newselected_from(rows, selected, indices, p) ==
    IF p > Len(rows) \/ p > Len(selected) THEN << >>
    ELSE (IF rows[p].index \notin indices THEN << selected[p] >> ELSE << >>)
         \o newselected_from(rows, selected, indices, p + 1)

newselected(rows, selected, indices) == newselected_from(rows, selected, indices, 1)

\* ------------------------------------------------------------------ models
\* A timing model: gen counts the successful fits that led to it from the
\* model of the par file (gen 0), pj says whether it has a PhaseJump
\* component, jumps holds the ids of its JUMP parameters and frozen those of
\* them that are frozen.
NoneModel == [none |-> TRUE, gen |-> 0, pj |-> FALSE, jumps |-> {}, frozen |-> {}]

\* pint.models.get_model(self.parfile)
get_model == [none |-> FALSE, gen |-> 0, pj |-> FALSE, jumps |-> {}, frozen |-> {}]

\* Residuals(toas, model, track_mode): determined by the rows, the model and
\* the tracking mode it was computed with.
NoneResids == [none |-> TRUE, toas |-> << >>, model |-> NoneModel, track |-> FALSE]
Residuals(t, model, track) ==
    [none |-> FALSE, toas |-> index_column(t), model |-> model, track |-> track]

\* A fit that never promotes the post-fit value.
promote_never(isfitted, pre, post) == pre

\* Lines 398-400 of Pulsar.fit: the previous post-fit value becomes the
\* pre-fit value when the session is fitted.
promote(isfitted, pre, post) == IF isfitted THEN post ELSE pre

\* fitter.fit_toas(): the refined model, a copy of the model it started from.
fit_toas(model) == [model EXCEPT !.gen = @ + 1]

\* ------------------------------------------------------------------- jumps
NoFlags == [i \in Indices |-> {}]

\* Lowest positive integer that is no jump id of the model.
free_jump_id(model) ==
    CHOOSE k \in 1 .. (Cardinality(model.jumps) + 1) :
        /\ k \notin model.jumps
        /\ \A m \in 1 .. (k - 1) : m \in model.jumps

\* TimingModel.add_jump_and_flags: the model with one more jump, unfrozen,
\* and the flags with its id added at the selected TOAs.
add_jump_model(model) ==
    [model EXCEPT !.pj = TRUE, !.jumps = @ \cup {free_jump_id(model)},
                  !.frozen = @ \ {free_jump_id(model)}]
add_jump_flags(fl, sel_idx, id) ==
    [i \in Indices |-> IF i \in sel_idx THEN fl[i] \cup {id} ELSE fl[i]]

\* TimingModel.delete_jump_and_flags: the jump parameter removed (and the
\* PhaseJump component with the last of them), its id cleared from the flags.
delete_jump_model(model, num) ==
    [model EXCEPT !.jumps = @ \ {num}, !.frozen = @ \ {num},
                  !.pj = (model.jumps \ {num} # {})]
delete_jump_flags(fl, num) == [i \in Indices |-> fl[i] \ {num}]

\* prefit_model.components["PhaseJump"].get_number_of_jumps()
get_number_of_jumps(model) == Cardinality(model.jumps)

\* The selected rows by their position in the table instead of their index.
selected_positions(t, selected) == {p - 1 : p \in {q \in 1 .. Len(t.rows) : selected[q]}}

\* A post-fit model that is not told of the new jump.
mirror_jump_skipped(post, id) == post

\* Lines 376-387 of Pulsar.add_jump: the newest jump of the pre-fit model is
\* added to the post-fit model and unfrozen there.
mirror_jump(post, id) ==
    [post EXCEPT !.pj = TRUE, !.jumps = @ \cup {id}, !.frozen = @ \ {id}]

\* Lines 337-344 of Pulsar.add_jump: the PhaseJump component given to the
\* pre-fit model, with the first jump in it, is given to the post-fit model.
mirror_component(post, pre) ==
    [post EXCEPT !.pj = TRUE, !.jumps = pre.jumps, !.frozen = pre.frozen]

\* A zero-jump component that is dropped instead of reported.
no_jumps_recovered(model) == [model EXCEPT !.pj = FALSE]

\* Lines 348-353 of Pulsar.add_jump: a PhaseJump component without jumps is
\* warned about and the model is left as it is.
no_jumps(model) == model

\* The jump numbers tried by the loop of Pulsar.add_jump.
jump_range(numjumps) == 1 .. numjumps

\* ---------------------------------------------------------- phase wraps
\* The pulse-number columns a table can have, and the tables of get_TOAs,
\* which have none of them.
NoColumns == [all |-> {}, sel |-> {}]
np_zeros == [i \in Indices |-> 0]
NoDeltas == [all |-> np_zeros, sel |-> np_zeros]

\* The values of a column at the rows of table t (0 stands at the indices
\* that have no row in it).
column_of(t, col) == [i \in Indices |-> IF i \in index_set(t) THEN col[i] ELSE 0]

\* The phases add_phase_wrap is called with, and the largest correction a
\* TOA collects.
Phases == {-1, 1}
MaxWrap == 2

\* ------------------------------------------------------------ random models
\* The largest span between the first and the last selected TOA, in days, and
\* the values Time.now().mjd - 40 takes.
MaxSpan == 450
Nowish == {2, 500, 1000}

\* A factor as a fraction num / den.
Frac(num, den) == [num |-> num, den |-> den]

\* Lines 449 and 466-467 of Pulsar.fit: the MJDs of the selected table, their
\* extremes and their span.
get_mjds(t) == {t.rows[p].mjd : p \in 1 .. Len(t.rows)}
min_of(S) == CHOOSE x \in S : \A y \in S : x <= y
max_of(S) == CHOOSE x \in S : \A y \in S : y <= x
spanMJDs(t) == max_of(get_mjds(t)) - min_of(get_mjds(t))

Regime(edge, npoints) == [redge |-> edge, ledge |-> edge, npoints |-> npoints]

\* A regime table whose thresholds belong to the shorter span.
regime_inclusive(span) ==
    IF span <= 30 THEN Regime(Frac(4, 1), 400)
    ELSE IF span <= 90 THEN Regime(Frac(2, 1), 300)
    ELSE IF span <= 200 THEN Regime(Frac(1, 1), 300)
    ELSE IF span <= 400 THEN Regime(Frac(1, 2), 200)
    ELSE Regime(Frac(1, 1), 250)

\* Lines 468-482 of Pulsar.fit: how far the fake TOAs go on either side, as a
\* factor of the span, and how many of them there are.
regime(span) ==
    IF span < 30 THEN Regime(Frac(4, 1), 400)
    ELSE IF span < 90 THEN Regime(Frac(2, 1), 300)
    ELSE IF span < 200 THEN Regime(Frac(1, 1), 300)
    ELSE IF span < 400 THEN Regime(Frac(1, 2), 200)
    ELSE Regime(Frac(1, 1), 250)

\* A cap without the clamp at zero.
capped_redge_unclamped(maxMJD, span, redge, nowish) ==
    IF maxMJD * redge.den + span * redge.num > nowish * redge.den
    THEN Frac(nowish - maxMJD, span)
    ELSE redge

\* Lines 484-487 of Pulsar.fit: a right edge that would go beyond nowish is
\* brought back to nowish, and no further back than the last selected TOA.
capped_redge(maxMJD, span, redge, nowish) ==
    IF maxMJD * redge.den + span * redge.num > nowish * redge.den
    THEN (IF nowish > maxMJD THEN Frac(nowish - maxMJD, span) ELSE Frac(0, 1))
    ELSE redge

\* The ensemble fields before any fit(compute_random=True): __init__ assigns
\* neither of them.
NoneRandom == [none |-> TRUE, model |-> NoneModel, start_index |-> 0, end_index |-> 0]
NoneFake == [none |-> TRUE, model |-> NoneModel, ledge |-> Frac(0, 1), redge |-> Frac(0, 1),
             npoints |-> 0]

\* Lines 488-493 of Pulsar.fit: the fake TOAs are made from the model of the
\* copied fitter between the two edges, the random residuals from that fitter
\* and the fake TOAs.
make_fake_toas_uniform(ledge, redge, npoints, model) ==
    [none |-> FALSE, model |-> model, ledge |-> ledge, redge |-> redge, npoints |-> npoints]

\* f_toas.get_mjds(): npoints MJDs evenly spaced from minMJD - span * ledge to
\* maxMJD + span * redge, both ends included.  The k-th of them (from 0) is
\* at or after minMJD + offset.num / offset.den * span when
\* k * fake_step(ft, span, offset) >= fake_distance(ft, span, offset): the
\* inequality multiplied by the denominators and by npoints - 1.
fake_step(ft, span, offset) ==
    span * offset.den
      * (ft.ledge.den * ft.redge.den + ft.ledge.num * ft.redge.den
            + ft.redge.num * ft.ledge.den)
fake_distance(ft, span, offset) ==
    span * (ft.ledge.num * offset.den + offset.num * ft.ledge.den) * ft.redge.den
         * (ft.npoints - 1)

\* np.where((f_toas.get_mjds() - minMJD - offset * span) >= 0 * u.d)[0][0]: the
\* first fake TOA that far, which may be none of the npoints.
first_reaching(ft, span, offset) ==
    IF fake_step(ft, span, offset) = 0 THEN 0
    ELSE (fake_distance(ft, span, offset) + fake_step(ft, span, offset) - 1)
            \div fake_step(ft, span, offset)

\* An end of the window that is one past the fake TOA reaching maxMJD.
end_index_exclusive(ft, span) == first_reaching(ft, span, Frac(1, 1)) + 1

\* Lines 497-498 of Pulsar.fit
start_index(ft, span) == first_reaching(ft, span, Frac(0, 1))
end_index(ft, span) == first_reaching(ft, span, Frac(1, 1))

\* Lines 491-505 of Pulsar.fit: the random residuals of the fitter's model
\* over the fake TOAs, each re-centred on its mean between the two indices.
calculate_random_models(model, first_index, last_index) ==
    [none |-> FALSE, model |-> model, start_index |-> first_index, end_index |-> last_index]

\* -------------------------------------------------------------------- WaveX
\* The largest index a WaveX component is given.
MaxIndex == 3

\* The index argument: None, or an integer label.
NoIndex == << >>
Explicit(i) == << i >>
IndexArgs == {NoIndex} \cup {Explicit(i) : i \in 1 .. MaxIndex}

\* A WaveX component: for each prefix the indices of its parameters (the keys
\* of get_prefix_mapping_component), and the names whose value is None.
Component(freqs, sins, coses, unset) ==
    [WXFREQ_ |-> freqs, WXSIN_ |-> sins, WXCOS_ |-> coses, unset |-> unset]
get_prefix_mapping_component(c, prefix) ==
    IF prefix = "WXFREQ_" THEN c.WXFREQ_ ELSE IF prefix = "WXSIN_" THEN c.WXSIN_ ELSE c.WXCOS_
with_keys(c, prefix, keys) ==
    IF prefix = "WXFREQ_" THEN [c EXCEPT !.WXFREQ_ = keys]
    ELSE IF prefix = "WXSIN_" THEN [c EXCEPT !.WXSIN_ = keys]
    ELSE [c EXCEPT !.WXCOS_ = keys]

\* A step of a method: the component it leaves and how it ends ("ok" or the
\* exception raised).
Step(c, out) == [c |-> c, out |-> out]

\* Component.add_param: a name that exists with a value is refused, one that
\* exists without a value is replaced.
add_param(c, prefix, i, isnone) ==
    LET name == << prefix, i >>
        unset == IF isnone THEN c.unset \cup {name} ELSE c.unset \ {name}
    IN  IF i \in get_prefix_mapping_component(c, prefix) /\ name \notin c.unset
        THEN Step(c, "ValueError")
        ELSE Step([with_keys(c, prefix, get_prefix_mapping_component(c, prefix) \cup {i})
                        EXCEPT !.unset = unset], "ok")

\* Component.remove_param: a name that is not listed is refused.
remove_param(c, prefix, i) ==
    IF i \notin get_prefix_mapping_component(c, prefix) THEN Step(c, "ValueError")
    ELSE Step([with_keys(c, prefix, get_prefix_mapping_component(c, prefix) \ {i})
                    EXCEPT !.unset = @ \ {<< prefix, i >>}], "ok")

\* The next call of a method body, skipped once an exception is raised.
then_add(r, prefix, i, isnone) == IF r.out # "ok" THEN r ELSE add_param(r.c, prefix, i, isnone)
then_remove(r, prefix, i) == IF r.out # "ok" THEN r ELSE remove_param(r.c, prefix, i)

\* WaveX.validate; missing says that neither WXEPOCH nor the PEPOCH of the
\* parent model has a value.
validate(c, missing) ==
    IF c.WXFREQ_ # c.WXSIN_ \/ c.WXFREQ_ # c.WXCOS_ \/ c.WXSIN_ # c.WXCOS_ THEN "ValueError"
    ELSE IF missing THEN "MissingParameter"
    ELSE "ok"
then_validate(r, missing) == IF r.out # "ok" THEN r ELSE Step(r.c, validate(r.c, missing))

\* The three parameters of one component, in the order they are added.
add_three(r, i, freq_none, amps_none) ==
    then_add(then_add(then_add(r, "WXFREQ_", i, freq_none), "WXSIN_", i, amps_none),
             "WXCOS_", i, amps_none)

\* A removal that forgets the cosine amplitude.
remove_sine_only(r, i) == then_remove(then_remove(r, "WXFREQ_", i), "WXSIN_", i)

\* Lines 241-245 of WaveX.remove_wavex_component: the three parameters of one
\* index, in the order they are removed.
remove_three(r, i) ==
    then_remove(then_remove(then_remove(r, "WXFREQ_", i), "WXSIN_", i), "WXCOS_", i)

Result(r, ret) == [c |-> r.c, out |-> r.out, ret |-> IF r.out = "ok" THEN ret ELSE << >>]

\* WaveX.add_wavex_component(wxfreq, index=...) with the amplitudes left 0;
\* freq_none says that wxfreq is None.  np.max of no keys raises ValueError.
add_wavex_component_result(c, missing, freq_none, index) ==
    IF index = NoIndex /\ c.WXFREQ_ = {} THEN Result(Step(c, "ValueError"), << >>)
    ELSE LET i == IF index = NoIndex THEN max_of(c.WXFREQ_) + 1 ELSE index[1]
         IN  IF i \in c.WXFREQ_ THEN Result(Step(c, "ValueError"), << >>)
             ELSE Result(then_validate(add_three(Step(c, "ok"), i, freq_none, FALSE), missing),
                         << i >>)

\* The loop of WaveX.add_wavex_components from element p on: dct is the key
\* set read before the loop, last_index the running largest index, added the
\* indices assigned so far.
RECURSIVE add_loop(_, _, _, _, _, _, _, _)
add_loop(r, dct, last_index, added, wxfreqs, indices, amps_none, p) ==
    IF r.out # "ok" \/ p > Len(wxfreqs) \/ p > Len(indices) THEN Result(r, added)
    ELSE IF indices[p] = NoIndex
    THEN add_loop(add_three(r, last_index + 1, wxfreqs[p], amps_none), dct, last_index + 1,
                  Append(added, last_index + 1), wxfreqs, indices, amps_none, p + 1)
    ELSE IF indices[p][1] \in dct
    THEN Result(Step(r.c, "ValueError"), added)
    ELSE add_loop(add_three(r, indices[p][1], wxfreqs[p], amps_none), dct, last_index,
                  Append(added, indices[p][1]), wxfreqs, indices, amps_none, p + 1)

\* WaveX.add_wavex_components(wxfreqs, indices=..., wxsins=..., wxcoses=...);
\* wxfreqs says which base frequencies are None, amps_none whether wxsins and
\* wxcoses are None, lengths_match whether the amplitudes and the frozen flags
\* are scalars or as many as the frequencies.
add_wavex_components_result(c, missing, wxfreqs, indices, amps_none, lengths_match) ==
    IF ~lengths_match \/ c.WXFREQ_ = {} THEN Result(Step(c, "ValueError"), << >>)
    ELSE LET r == add_loop(Step(c, "ok"), c.WXFREQ_, max_of(c.WXFREQ_), << >>, wxfreqs,
                           indices, amps_none, 1)
         IN  Result(then_validate(Step(r.c, r.out), missing), r.ret)

RECURSIVE remove_loop(_, _, _)
remove_loop(r, indices, p) ==
    IF p > Len(indices) THEN r ELSE remove_loop(remove_three(r, indices[p]), indices, p + 1)

\* WaveX.remove_wavex_component(index), index a number or a list of them.
remove_wavex_component_result(c, missing, indices) ==
    Result(then_validate(remove_loop(Step(c, "ok"), indices, 1), missing), << >>)

\* ----------------------------------------------------------------- state
VARIABLES
    all_toas,           \* self.all_toas.table
    selected_toas,      \* self.selected_toas.table
    deleted,            \* self.deleted
    flags,              \* the "jump" flag of each row of all_toas.table["flags"]
    prefit_model,       \* self.prefit_model
    postfit_model,      \* self.postfit_model
    prefit_resids,      \* self.prefit_resids
    postfit_resids,     \* self.postfit_resids
    fitted,             \* self.fitted
    use_pulse_numbers,  \* self.use_pulse_numbers
    colnames,           \* the pulse-number columns of all_toas.table and selected_toas.table
    delta_pulse_number, \* the "delta_pulse_number" column of the two tables, by TOA index
    random_resids,      \* self.random_resids
    fake_toas,          \* self.fake_toas
    fit_start,          \* the model the fitter of the last fit() was built on
    last,               \* the last call: its name and the way it ended
    ret,                \* what the last call returned
    ncalls,             \* the number of calls made so far
    wavex,              \* the prefixed parameters of a WaveX component
    missing_epoch,      \* WXEPOCH and the PEPOCH of the parent model are both unset
    wxlast              \* the last WaveX call: its name, the way it ended, its result

vars == << all_toas, selected_toas, deleted, flags, prefit_model, postfit_model,
           prefit_resids, postfit_resids, fitted, use_pulse_numbers, colnames,
           delta_pulse_number, random_resids, fake_toas, fit_start, last, ret, ncalls,
           wavex, missing_epoch, wxlast >>

pulsar_vars == << all_toas, selected_toas, deleted, flags, prefit_model, postfit_model,
                  prefit_resids, postfit_resids, fitted, use_pulse_numbers, colnames,
                  delta_pulse_number, random_resids, fake_toas, fit_start, last, ret >>
wavex_vars == << wavex, missing_epoch, wxlast >>

toa_vars == << all_toas, selected_toas, deleted >>
model_vars == << prefit_model, postfit_model, prefit_resids, postfit_resids, fitted >>
col_vars == << colnames, delta_pulse_number >>
random_vars == << random_resids, fake_toas >>

Call(op, out) == [op |-> op, out |-> out]
Returned(kind, mask) == [kind |-> kind, mask |-> mask, num |-> 0]
ReturnedName(id) == [kind |-> "name", mask |-> << >>, num |-> id]


WaveXCall(op, r) == [op |-> op, out |-> r.out, ret |-> r.ret]

\* WaveX.__init__: component 1, its base frequency None and its amplitudes 0.
InitWaveX ==
    /\ wavex = add_wavex_component_result(Component({}, {}, {}, {}), FALSE, TRUE,
                                           Explicit(1)).c
    /\ wxlast = [op |-> "init", out |-> "ok", ret |-> << >>]

\* Pulsar.__init__
InitPulsar ==
    /\ all_toas = get_TOAs
    /\ selected_toas = get_TOAs
    /\ deleted = {}
    /\ flags = NoFlags
    /\ prefit_model = get_model
    /\ postfit_model = NoneModel
    /\ prefit_resids = Residuals(get_TOAs, get_model, FALSE)
    /\ postfit_resids = NoneResids
    /\ fitted = FALSE
    /\ use_pulse_numbers = FALSE
    /\ colnames = NoColumns
    /\ delta_pulse_number = NoDeltas
    /\ random_resids = NoneRandom
    /\ fake_toas = NoneFake
    /\ fit_start = NoneModel
    /\ last = Call("init", "ok")
    /\ ret = Returned("none", << >>)
    /\ ncalls = 0

\* A session, and a WaveX component that has its epoch.
Init == InitPulsar /\ InitWaveX /\ missing_epoch = FALSE

\* ------------------------------------------------------------- operations
\* An update_resids that never asks for pulse-number tracking.
track_mode_none(use) == FALSE

\* Line 202 of Pulsar.update_resids: track_mode is "use_pulse_numbers" (TRUE)
\* when self.use_pulse_numbers is set and None (FALSE) otherwise.
track_mode(use) == use

\* self.update_resids(): the pre-fit residuals over all_toas; nothing is
\* assigned when the table is None (Residuals raises).
updated_prefit_resids(t, model, track, old) ==
    IF t.none THEN old ELSE Residuals(t, model, track)

updated_postfit_resids(t, model, track, isfitted, old) ==
    IF t.none \/ ~isfitted THEN old ELSE Residuals(t, model, track)

\* The flag dictionaries of the rows that are still in the full table.
surviving_flags(fl, t) == [i \in Indices |-> IF i \in index_set(t) THEN fl[i] ELSE {}]

DeleteResult(all, sel, del, out, r) ==
    [all_toas |-> all, selected_toas |-> sel, deleted |-> del, out |-> out, ret |-> r]

\* Pulsar.delete_TOAs(indices, selected), selected a boolean array parallel
\* to the full table: the tables and the deleted set it leaves, how it ends
\* and what it returns.
delete_TOAs_result(indices, selected) ==
    LET del1 == update_deleted(deleted, indices)
        sel1 == delete_rows(selected_toas.rows, del1)
        all1 == delete_rows(all_toas.rows, del1)
        ns == newselected(all1.rows, selected, indices)
        raised == Returned("raise", << >>)
    IN  IF selected_toas.none
        THEN \* line 177: None has no group_by
             DeleteResult(all_toas, selected_toas, del1, "raise", raised)
        ELSE IF all_toas.none
        THEN \* line 179: None has no group_by
             DeleteResult(all_toas, sel1, del1, "raise", raised)
        ELSE IF sel1.none /\ ntoas_defined(all1)
        THEN \* lines 180-182: all selected were deleted
             DeleteResult(all1, all1, del1, "reset", Returned("mask", zeros(ntoas(all1))))
        ELSE IF sel1.none
        THEN \* line 182: ntoas of a table that is None
             DeleteResult(all1, all1, del1, "raise", raised)
        ELSE IF all1.none \/ Len(ns) # Len(all1.rows)
        THEN \* line 190 subscripts None, line 194 needs a mask as long as the table
             DeleteResult(all1, sel1, del1, "raise", raised)
        ELSE \* lines 188-194
             DeleteResult(all1, Table(take(all1.rows, ns)), del1, "filter",
                          Returned("mask", ns))

\* The columns of the tables delete_TOAs leaves: the rows that remain keep
\* their values; a selected table that is a copy (line 181) or a slice (line
\* 194) of the full table has the columns of the full table.
deleted_colnames(out) ==
    IF out \in {"reset", "filter"} THEN [all |-> colnames.all, sel |-> colnames.all]
    ELSE colnames

deleted_deltas(r) ==
    [all |-> column_of(r.all_toas, delta_pulse_number.all),
     sel |-> IF r.out \in {"reset", "filter"}
             THEN column_of(r.selected_toas, delta_pulse_number.all)
             ELSE column_of(r.selected_toas, delta_pulse_number.sel)]

delete_TOAs(indices, selected) ==
    \E r \in {delete_TOAs_result(indices, selected)} :
        /\ all_toas' = r.all_toas
        /\ selected_toas' = r.selected_toas
        /\ deleted' = r.deleted
        /\ flags' = surviving_flags(flags, r.all_toas)
        /\ colnames' = deleted_colnames(r.out)
        /\ delta_pulse_number' = deleted_deltas(r)
        /\ last' = Call("delete_TOAs", r.out)
        /\ ret' = r.ret
        /\ UNCHANGED << model_vars, use_pulse_numbers, fit_start, random_vars >>

\* A reset_model that forgets to drop the post-fit model.
reset_model_keeps_postfit ==
    /\ prefit_model' = get_model
    /\ fitted' = FALSE
    /\ prefit_resids' = updated_prefit_resids(all_toas, get_model,
                                               track_mode(use_pulse_numbers), prefit_resids)
    /\ last' = Call("reset_model", IF all_toas.none THEN "raise" ELSE "ok")
    /\ ret' = Returned(IF all_toas.none THEN "raise" ELSE "none", << >>)
    /\ UNCHANGED << toa_vars, flags, use_pulse_numbers, fit_start, postfit_model,
                    postfit_resids, col_vars, random_vars >>

\* Pulsar.reset_model()
reset_model ==
    /\ prefit_model' = get_model
    /\ postfit_model' = NoneModel
    /\ postfit_resids' = NoneResids
    /\ fitted' = FALSE
    /\ prefit_resids' = updated_prefit_resids(all_toas, get_model,
                                               track_mode(use_pulse_numbers), prefit_resids)
    /\ last' = Call("reset_model", IF all_toas.none THEN "raise" ELSE "ok")
    /\ ret' = Returned(IF all_toas.none THEN "raise" ELSE "none", << >>)
    /\ UNCHANGED << toa_vars, flags, use_pulse_numbers, fit_start, col_vars, random_vars >>

\* Pulsar.reset_TOAs()
reset_TOAs ==
    /\ all_toas' = get_TOAs
    /\ selected_toas' = get_TOAs
    /\ deleted' = reset_deleted
    /\ flags' = NoFlags
    /\ prefit_resids' = Residuals(get_TOAs, prefit_model, track_mode(use_pulse_numbers))
    /\ postfit_resids' = updated_postfit_resids(get_TOAs, postfit_model,
                                                track_mode(use_pulse_numbers),
                                                fitted, postfit_resids)
    /\ colnames' = NoColumns
    /\ delta_pulse_number' = NoDeltas
    /\ last' = Call("reset_TOAs", "ok")
    /\ ret' = Returned("none", << >>)
    /\ UNCHANGED << prefit_model, postfit_model, fitted, use_pulse_numbers, fit_start,
                    random_vars >>

\* Pulsar.resetAll()
resetAll ==
    /\ prefit_model' = get_model
    /\ postfit_model' = NoneModel
    /\ postfit_resids' = NoneResids
    /\ fitted' = FALSE
    /\ use_pulse_numbers' = FALSE
    /\ all_toas' = get_TOAs
    /\ selected_toas' = get_TOAs
    /\ deleted' = reset_deleted
    /\ flags' = NoFlags
    /\ prefit_resids' = Residuals(get_TOAs, get_model, track_mode(FALSE))
    /\ colnames' = NoColumns
    /\ delta_pulse_number' = NoDeltas
    /\ last' = Call("resetAll", "ok")
    /\ ret' = Returned("none", << >>)
    /\ UNCHANGED << fit_start, random_vars >>

\* A fit that takes an all-False selection as it is.
effective_selection_kept(selected) == selected

\* Lines 395-396 of Pulsar.fit: an all-False selection is inverted.
effective_selection(selected) ==
    IF \E p \in 1 .. Len(selected) : selected[p] THEN selected
    ELSE [p \in 1 .. Len(selected) |-> ~selected[p]]

\* Lines 424-429 of Pulsar.fit: a column "delta_pulse_numbers" of zeros is
\* assigned to the full table and "delta_pulse_number" of the selected table
\* is set to zeros; both tables get their pulse numbers computed.
fitted_colnames(cols) ==
    [all |-> cols.all \cup {"delta_pulse_numbers", "pulse_number"},
     sel |-> cols.sel \cup {"delta_pulse_number", "pulse_number"}]

fitted_deltas(deltas) == [all |-> deltas.all, sel |-> np_zeros]

FitResult(pre, pres, post, posts, isfitted, cols, deltas, rr, ft, out) ==
    [prefit_model |-> pre, prefit_resids |-> pres, postfit_model |-> post,
     postfit_resids |-> posts, fitted |-> isfitted, colnames |-> cols,
     delta_pulse_number |-> deltas, random_resids |-> rr, fake_toas |-> ft, out |-> out]

\* Line 446 of Pulsar.fit: the rows of the fitter's table without a jump flag.
no_jumps_rows(t) == [p \in 1 .. Len(t.rows) |-> flags[t.rows[p].index] = {}]

\* Lines 449-467 of Pulsar.fit: the places where the random-model block
\* raises: the extremes of no MJD (line 453 or 466), no TOA of the full table
\* later than the first selected one (line 453), a boolean index over the
\* selected rows applied to residuals over the full table (line 461).
random_raises ==
    \/ Len(selected_toas.rows) = 0
    \/ /\ \A p \in 1 .. Len(selected_toas.rows) : no_jumps_rows(selected_toas)[p]
       /\ ~\E i \in get_mjds(all_toas) : i > min_of(get_mjds(selected_toas))
    \/ /\ \E p \in 1 .. Len(selected_toas.rows) : ~no_jumps_rows(selected_toas)[p]
       /\ Len(selected_toas.rows) # Len(all_toas.rows)

\* Lines 466-490 of Pulsar.fit: the fake TOAs of the selected table.
fake_toas_of(t, model, nowish) ==
    \* redge and ledge are the same factor before the cap
    LET r == regime(spanMJDs(t))
    IN  make_fake_toas_uniform(r.ledge,
                               capped_redge(max_of(get_mjds(t)), spanMJDs(t), r.redge, nowish),
                               r.npoints, model)

\* Lines 491-505 of Pulsar.fit, reached with the fit recorded in r and the
\* fake TOAs ft made: [0][0] of an empty array raises at line 497 or 498 and
\* leaves r; otherwise the random residuals and the fake TOAs are stored.
windowed(r, ft, span) ==
    IF start_index(ft, span) >= ft.npoints \/ end_index(ft, span) >= ft.npoints THEN r
    ELSE [r EXCEPT !.random_resids =
                        calculate_random_models(r.postfit_model, start_index(ft, span),
                                                end_index(ft, span)),
                   !.fake_toas = ft, !.out = "ok"]

random_models(r, fake, spanned) ==
    CHOOSE w \in {windowed(r, ft, span) : ft \in {fake}, span \in {spanned}} : TRUE

\* Pulsar.fit(selected, compute_random=...): the session it leaves and how it
\* ends; converges says whether fitter.fit_toas() returns or raises, nowish is
\* Time.now().mjd - 40 (read with compute_random only).  The fitter is built
\* on selected_toas and the pre-fit model; the mask, inverted at line 396 when
\* it selects nothing, is not read again.
fit_result(selected, converges, compute_random, nowish) ==
    LET mask == effective_selection(selected)
        pre1 == promote(fitted, prefit_model, postfit_model)
        res1 == promote(fitted, prefit_resids, postfit_resids)
        post1 == fit_toas(pre1)
        posts1 == updated_postfit_resids(all_toas, post1, FALSE, TRUE, postfit_resids)
        cols1 == fitted_colnames(colnames)
        deltas1 == fitted_deltas(delta_pulse_number)
    IN  IF ~converges \/ selected_toas.none
        THEN FitResult(pre1, res1, postfit_model, postfit_resids, fitted, colnames,
                       delta_pulse_number, random_resids, fake_toas, "raise")
        ELSE IF ~compute_random
        THEN FitResult(pre1, res1, post1, posts1, TRUE, cols1, deltas1, random_resids,
                       fake_toas, "ok")
        ELSE IF random_raises
        THEN FitResult(pre1, res1, post1, posts1, TRUE, cols1, deltas1, random_resids,
                       fake_toas, "raise")
        ELSE random_models(FitResult(pre1, res1, post1, posts1, TRUE, cols1, deltas1,
                                     random_resids, fake_toas, "raise"),
                           fake_toas_of(selected_toas, post1, nowish),
                           spanMJDs(selected_toas))

fit(selected, converges, compute_random, nowish) ==
    \E r \in {fit_result(selected, converges, compute_random, nowish)} :
        /\ r.postfit_model.gen <= MaxFits
        /\ prefit_model' = r.prefit_model
        /\ prefit_resids' = r.prefit_resids
        /\ fit_start' = r.prefit_model
        /\ postfit_model' = r.postfit_model
        /\ postfit_resids' = r.postfit_resids
        /\ fitted' = r.fitted
        /\ colnames' = r.colnames
        /\ delta_pulse_number' = r.delta_pulse_number
        /\ random_resids' = r.random_resids
        /\ fake_toas' = r.fake_toas
        /\ last' = Call("fit", r.out)
        /\ ret' = Returned(IF r.out = "ok" THEN "none" ELSE "raise", << >>)
        /\ UNCHANGED << toa_vars, flags, use_pulse_numbers >>

\* The part of the session Pulsar.add_jump reads and writes.
JumpSession(all, fl, pre, post, isfitted) ==
    [all_toas |-> all, flags |-> fl, prefit_model |-> pre, postfit_model |-> post,
     fitted |-> isfitted]

Session == JumpSession(all_toas, flags, prefit_model, postfit_model, fitted)

JumpResult(st, fl, pre, post, out, r) ==
    [st |-> JumpSession(st.all_toas, fl, pre, post, st.fitted), out |-> out, ret |-> r]

\* table["flags"][selected]: the indices of the selected rows.
selected_indices(t, selected) ==
    {t.rows[p].index : p \in {q \in 1 .. Len(t.rows) : selected[q]}}

\* toas_jumped of Pulsar.add_jump: which rows of the full table carry jump num.
toas_jumped(st, num) ==
    [p \in 1 .. Len(st.all_toas.rows) |-> num \in st.flags[st.all_toas.rows[p].index]]

\* The jump numbers of the loop whose rows are exactly the selected ones.
matching_jumps(st, selected) ==
    {num \in jump_range(get_number_of_jumps(st.prefit_model)) :
        toas_jumped(st, num) = selected}

\* Pulsar.add_jump(selected) in session st: the session it leaves, how it
\* ends and what it returns.
add_jump_result(st, selected) ==
    LET pre == st.prefit_model
        post == st.postfit_model
        id == free_jump_id(pre)
        num == first(matching_jumps(st, selected))
        pre_add == add_jump_model(pre)
        fl_add == add_jump_flags(st.flags, selected_indices(st.all_toas, selected), id)
    IN  IF ~pre.pj /\ st.all_toas.none
        THEN \* lines 337-341: the component is added, then None is subscripted
             JumpResult(st, st.flags, [pre EXCEPT !.pj = TRUE], post, "raise",
                        Returned("raise", << >>))
        ELSE IF ~pre.pj
        THEN \* lines 334-345: the first jump; the post-fit model gets the same component
             JumpResult(st, fl_add, pre_add,
                        IF st.fitted THEN mirror_component(post, pre_add) ELSE post,
                        "first", ReturnedName(id))
        ELSE IF get_number_of_jumps(pre) = 0
        THEN \* lines 348-353
             JumpResult(st, st.flags, no_jumps(pre), post, "nojumps", Returned("none", << >>))
        ELSE IF st.all_toas.none
        THEN \* line 359 subscripts None
             JumpResult(st, st.flags, pre, post, "raise", Returned("raise", << >>))
        ELSE IF matching_jumps(st, selected) # {}
        THEN \* lines 361-369: the selection is exactly jump num
             JumpResult(st, delete_jump_flags(st.flags, num), delete_jump_model(pre, num),
                        IF st.fitted THEN delete_jump_model(post, num) ELSE post,
                        "removed", Returned("mask", toas_jumped(st, num)))
        ELSE \* lines 372-388: a further jump, mirrored into the post-fit model
             JumpResult(st, fl_add, pre_add,
                        IF st.fitted THEN mirror_jump(post, id) ELSE post,
                        "added", ReturnedName(id))

add_jump(selected) ==
    \E r \in {add_jump_result(Session, selected)} :
        /\ Cardinality(r.st.prefit_model.jumps) <= MaxJumps
        /\ flags' = r.st.flags
        /\ prefit_model' = r.st.prefit_model
        /\ postfit_model' = r.st.postfit_model
        /\ last' = Call("add_jump", r.out)
        /\ ret' = r.ret
        /\ UNCHANGED << toa_vars, col_vars, prefit_resids, postfit_resids, fitted,
                        use_pulse_numbers, fit_start, random_vars >>

\* A phase wrap that replaces the correction of the selected TOAs.
wrapped_overwrite(col, idx, phase) ==
    [i \in Indices |-> IF i \in idx THEN phase ELSE col[i]]

\* Line 323 of Pulsar.add_phase_wrap: table["delta_pulse_number"][selected] += phase
wrapped(col, idx, phase) ==
    [i \in Indices |-> IF i \in idx THEN col[i] + phase ELSE col[i]]

\* Lines 303-313 and 314-320 of Pulsar.add_phase_wrap: a column that one of
\* the two tables lacks is made in both.
with_column(cols, name) ==
    IF name \in cols.all /\ name \in cols.sel THEN cols
    ELSE [all |-> cols.all \cup {name}, sel |-> cols.sel \cup {name}]

WrapResult(cols, deltas, track, pre, post, out) ==
    [colnames |-> cols, delta_pulse_number |-> deltas, use_pulse_numbers |-> track,
     prefit_resids |-> pre, postfit_resids |-> post, out |-> out]

\* Pulsar.add_phase_wrap(selected, phase): the columns, the tracking mode and
\* the residuals it leaves, and how it ends.
add_phase_wrap_result(selected, phase) ==
    LET cols == with_column(with_column(colnames, "pulse_number"), "delta_pulse_number")
        d1 == IF cols = with_column(colnames, "pulse_number") THEN delta_pulse_number
              ELSE NoDeltas
        d2 == [d1 EXCEPT !.all = wrapped(d1.all, selected_indices(all_toas, selected), phase)]
    IN  IF all_toas.none \/ selected_toas.none
        THEN \* line 303: None has no colnames
             WrapResult(colnames, delta_pulse_number, use_pulse_numbers, prefit_resids,
                        postfit_resids, "raise")
        ELSE IF Len(selected) # Len(all_toas.rows)
        THEN \* line 323: the boolean index does not fit the column
             WrapResult(cols, d1, use_pulse_numbers, prefit_resids, postfit_resids, "raise")
        ELSE WrapResult(cols, d2, TRUE, Residuals(all_toas, prefit_model, track_mode(TRUE)),
                        updated_postfit_resids(all_toas, postfit_model, track_mode(TRUE),
                                               fitted, postfit_resids),
                        "ok")

add_phase_wrap(selected, phase) ==
    \E r \in {add_phase_wrap_result(selected, phase)} :
        /\ \A i \in Indices : r.delta_pulse_number.all[i] \in (0 - MaxWrap) .. MaxWrap
        /\ colnames' = r.colnames
        /\ delta_pulse_number' = r.delta_pulse_number
        /\ use_pulse_numbers' = r.use_pulse_numbers
        /\ prefit_resids' = r.prefit_resids
        /\ postfit_resids' = r.postfit_resids
        /\ last' = Call("add_phase_wrap", r.out)
        /\ ret' = Returned(IF r.out = "ok" THEN "none" ELSE "raise", << >>)
        /\ UNCHANGED << toa_vars, flags, prefit_model, postfit_model, fitted, fit_start,
                        random_vars >>

\* ------------------------------------------------------- specifications
CurrentMasks == Masks(Len(all_toas.rows))
ones(n) == [p \in 1 .. n |-> TRUE]
FitMasks == {zeros(Len(all_toas.rows)), ones(Len(all_toas.rows))}

DeleteCall == \E indices \in SUBSET Indices, selected \in CurrentMasks : delete_TOAs(indices, selected)
\* Without compute_random the last argument is not read.
FitCall == \E selected \in FitMasks, converges \in BOOLEAN : fit(selected, converges, FALSE, 0)
RandomFitCall ==
    \E selected \in FitMasks, converges \in BOOLEAN, nowish \in Nowish :
        fit(selected, converges, TRUE, nowish)
\* The selections add_jump is called with: at least one row is selected.  With
\* no row selected, toas_jumped of an absent jump number equals the selection,
\* and what delete_jump_and_flags does with an absent jump is not in the source.
JumpMasks == {m \in CurrentMasks : all_toas.none \/ \E p \in 1 .. Len(m) : m[p]}
JumpCall == \E selected \in JumpMasks : add_jump(selected)
WrapCall == \E selected \in CurrentMasks, phase \in Phases : add_phase_wrap(selected, phase)
\* A phase wrap of every TOA of the full table, or of none.
WholeWrapCall == \E selected \in FitMasks, phase \in Phases : add_phase_wrap(selected, phase)

\* A call of a session whose number of calls is bounded, and of one where it
\* is not.
Counted(call) == ncalls < MaxCalls /\ ncalls' = ncalls + 1 /\ call /\ UNCHANGED wavex_vars
Free(call) == call /\ UNCHANGED << ncalls, wavex_vars >>

Next ==
    \/ Counted(DeleteCall)
    \/ Counted(reset_model)
    \/ Counted(reset_TOAs)
    \/ Counted(resetAll)
    \/ Counted(FitCall)
    \/ Counted(JumpCall)
    \/ Counted(WrapCall)
    \/ Counted(RandomFitCall)

\* The whole session, up to MaxCalls calls.
Spec == Init /\ [][Next]_vars

\* A session of deletions, fits and model resets: the TOAs are never reloaded.
NextNoReload ==
    \/ Free(DeleteCall)
    \/ Free(FitCall)
    \/ Free(reset_model)

SpecNoReload == Init /\ [][NextNoReload]_vars

\* A session of every operation but add_jump, of any length.
NextToas ==
    \/ Free(DeleteCall)
    \/ Free(reset_model)
    \/ Free(reset_TOAs)
    \/ Free(resetAll)
    \/ Free(FitCall)

SpecToas == Init /\ [][NextToas]_vars

\* A session of add_jump calls, of any length.
NextJump == Free(JumpCall)

SpecJump == Init /\ [][NextJump]_vars

\* delete_TOAs called with every index of the tim file.
DeleteAllCall == delete_TOAs(Indices, ones(Len(all_toas.rows)))

\* A session of up to MaxCalls calls that toggles jumps between fits and
\* model resets, and may delete every TOA.
NextJumpFit ==
    \/ Counted(JumpCall)
    \/ Counted(FitCall)
    \/ Counted(reset_model)
    \/ Counted(DeleteAllCall)

SpecJumpFit == Init /\ [][NextJumpFit]_vars

\* A session of phase wraps and fits, of any length.
NextWrap ==
    \/ Free(WrapCall)
    \/ Free(FitCall)

SpecWrap == Init /\ [][NextWrap]_vars

\* A session of phase wraps of the whole table, fits and resets, of any length.
NextTrack ==
    \/ Free(WholeWrapCall)
    \/ Free(FitCall)
    \/ Free(reset_model)
    \/ Free(reset_TOAs)
    \/ Free(resetAll)

SpecTrack == Init /\ [][NextTrack]_vars

\* A session of fits with and without random models, phase wraps of the whole
\* table and resets, of any length.
NextRandom ==
    \/ Free(FitCall)
    \/ Free(RandomFitCall)
    \/ Free(WholeWrapCall)
    \/ Free(reset_model)
    \/ Free(reset_TOAs)
    \/ Free(resetAll)

SpecRandom == Init /\ [][NextRandom]_vars

\* A tim file of two TOAs of one observatory, span days apart.
SpanTable(span) ==
    Table(<< [index |-> 0, obs |-> 0, mjd |-> 0], [index |-> 1, obs |-> 0, mjd |-> span] >>)

\* Pulsar.__init__ on such a tim file.
InitSpan ==
    \E span \in 0 .. MaxSpan :
        /\ all_toas = SpanTable(span)
        /\ selected_toas = SpanTable(span)
        /\ deleted = {}
        /\ flags = NoFlags
        /\ prefit_model = get_model
        /\ postfit_model = NoneModel
        /\ prefit_resids = Residuals(SpanTable(span), get_model, FALSE)
        /\ postfit_resids = NoneResids
        /\ fitted = FALSE
        /\ use_pulse_numbers = FALSE
        /\ colnames = NoColumns
        /\ delta_pulse_number = NoDeltas
        /\ random_resids = NoneRandom
        /\ fake_toas = NoneFake
        /\ fit_start = NoneModel
        /\ last = Call("init", "ok")
        /\ ret = Returned("none", << >>)
        /\ ncalls = 0
        /\ InitWaveX
        /\ missing_epoch = FALSE

\* Fits with random models on tim files of every span up to MaxSpan.
NextSpan == Counted(RandomFitCall)

SpecSpan == InitSpan /\ [][NextSpan]_vars

\* The longest list of components added or removed in one call.
MaxBatch == 2

Batches(S) == UNION {[1 .. n -> S] : n \in 1 .. MaxBatch}

\* A WaveX call ends in the component and the result it computed; indices stay
\* within MaxIndex.
wavex_call(op, r) ==
    /\ r.c.WXFREQ_ \cup r.c.WXSIN_ \cup r.c.WXCOS_ \subseteq 1 .. MaxIndex
    /\ wavex' = r.c
    /\ wxlast' = WaveXCall(op, r)
    /\ UNCHANGED << missing_epoch, pulsar_vars, ncalls >>

add_wavex_component(freq_none, index) ==
    \E r \in {add_wavex_component_result(wavex, missing_epoch, freq_none, index)} :
        wavex_call("add_wavex_component", r)

add_wavex_components(wxfreqs, indices, amps_none, lengths_match) ==
    \E r \in {add_wavex_components_result(wavex, missing_epoch, wxfreqs, indices,
                                           amps_none, lengths_match)} :
        wavex_call("add_wavex_components", r)

remove_wavex_component(indices) ==
    \E r \in {remove_wavex_component_result(wavex, missing_epoch, indices)} :
        wavex_call("remove_wavex_component", r)

AddCall == \E freq_none \in BOOLEAN, index \in IndexArgs : add_wavex_component(freq_none, index)
\* Amplitudes and frozen flags are scalars, or lists when indices is left None;
\* the amplitudes are numbers.
AddManyCall ==
    \E wxfreqs \in Batches(BOOLEAN) :
        \E indices \in [1 .. Len(wxfreqs) -> IndexArgs] :
            \E lengths_match \in IF \A p \in DOMAIN indices : indices[p] = NoIndex
                                 THEN BOOLEAN ELSE {TRUE} :
                add_wavex_components(wxfreqs, indices, FALSE, lengths_match)
\* The same with amplitudes that are numbers or None.
AddManyAmpsCall ==
    \E wxfreqs \in Batches(BOOLEAN), amps_none \in BOOLEAN :
        \E indices \in [1 .. Len(wxfreqs) -> IndexArgs] :
            add_wavex_components(wxfreqs, indices, amps_none, TRUE)
RemoveCall == \E indices \in Batches(1 .. MaxIndex) : remove_wavex_component(indices)

\* A WaveX component of a model with or without an epoch.
InitParent == InitPulsar /\ InitWaveX /\ missing_epoch \in BOOLEAN

NextWaveX ==
    \/ AddCall
    \/ AddManyCall
    \/ RemoveCall

SpecWaveX == InitParent /\ [][NextWaveX]_vars

\* Batches with amplitudes given or not, and removals.
NextBatch ==
    \/ AddManyAmpsCall
    \/ RemoveCall

SpecBatch == InitParent /\ [][NextBatch]_vars

\* ----------------------------------------------------------------- claims
FileRows == {TimFile[i] : i \in Indices}
rows_of(t) == {t.rows[p] : p \in 1 .. Len(t.rows)}
LiveIndices == index_set(all_toas) \cup index_set(selected_toas)

\* C1: over any sequence of delete_TOAs calls, every row left in the full
\* or the selected table is a row of the tim file with the index it had
\* there, and no index passed to delete_TOAs is in either table.
C1_IdentityStability ==
    /\ rows_of(all_toas) \subseteq FileRows
    /\ rows_of(selected_toas) \subseteq FileRows
    /\ Cardinality(rows_of(all_toas)) = Len(all_toas.rows)
    /\ deleted \cap LiveIndices = {}

C1_Witness ==
    /\ last = Call("delete_TOAs", "filter")
    /\ Cardinality(deleted) >= 2
    /\ Len(selected_toas.rows) >= 1
    /\ rows_of(selected_toas) \subseteq rows_of(all_toas)

\* The mask that marks, in table t, the rows whose index the mask `selected`
\* marked in the full table before the call.
still_selected(t, selected) ==
    [p \in 1 .. Len(t.rows) |->
        \E q \in 1 .. Len(all_toas.rows) :
            all_toas.rows[q].index = t.rows[p].index /\ selected[q]]

\* C2: for every delete_TOAs call with a mask that describes the selected
\* table, a returned mask is True exactly at the rows of the new full table
\* that the mask selected before the call.
C2_ReturnedMaskKeepsSelection ==
    \A indices \in SUBSET Indices, selected \in CurrentMasks :
        \A r \in {delete_TOAs_result(indices, selected)} :
            (selected_toas = Table(take(all_toas.rows, selected)) /\ r.ret.kind = "mask")
                => r.ret.mask = still_selected(r.all_toas, selected)

\* C3: after every delete_TOAs call a mask is returned, and it is as long as
\* the full table is after the call.
C3_MaskLength ==
    last.op = "delete_TOAs" =>
        /\ ret.kind = "mask"
        /\ ~all_toas.none
        /\ Len(ret.mask) = Len(all_toas.rows)

\* C4: a delete_TOAs call that removes every row of the selected table and
\* leaves a row in the full table makes the selected table the new full
\* table and returns an all-False mask.
C4_EmptiedSelectionResets ==
    [][(/\ last'.op = "delete_TOAs"
        /\ ~selected_toas.none
        /\ index_set(selected_toas) \subseteq deleted'
        /\ ~(index_set(all_toas) \subseteq deleted'))
       => (/\ ~all_toas'.none
           /\ selected_toas' = all_toas'
           /\ ret' = Returned("mask", zeros(Len(all_toas'.rows))))]_vars

C4_Witness ==
    /\ last = Call("delete_TOAs", "reset")
    /\ deleted # {}
    /\ Len(all_toas.rows) >= 1
    /\ selected_toas = all_toas
    /\ ret = Returned("mask", zeros(Len(all_toas.rows)))

Reloads == {"reset_TOAs", "resetAll"}

\* C5 as claimed: over every operation, resets included, the deleted set
\* only grows, and it shares no index with the full or the selected table.
C5_DeletedOnlyGrows ==
    [][deleted \subseteq deleted' /\ deleted' \cap LiveIndices' = {}]_vars

\* C5: over every operation other than reset_TOAs and resetAll the deleted
\* set only grows; reset_TOAs and resetAll empty it and reload both tables
\* from the tim file; it never shares an index with the full or the selected
\* table.
C5_DeletedGrowsUntilReload ==
    [][/\ last'.op \notin Reloads => deleted \subseteq deleted'
       /\ last'.op \in Reloads =>
            /\ deleted' = {}
            /\ all_toas' = get_TOAs
            /\ selected_toas' = get_TOAs
       /\ deleted' \cap LiveIndices' = {}]_vars

C5_Witness ==
    /\ last = Call("delete_TOAs", "filter")
    /\ Cardinality(deleted) >= 2
    /\ LiveIndices # {}
    /\ fitted

\* C6: a fit that fails leaves the pre-fit model, the post-fit model, both
\* residuals and the fitted flag as they were before the call, also when the
\* session was already fitted.
C6_FailedFitChangesNothing ==
    [][(last'.op = "fit" /\ last'.out = "raise") => UNCHANGED model_vars]_vars

\* C7: a fit called on a fitted session hands the fitter the post-fit model
\* of the previous successful fit, which is then the pre-fit model, with the
\* post-fit residuals as the pre-fit residuals; it is never the loaded model.
C7_FitStartsFromPostfit ==
    [][(last'.op = "fit" /\ fitted) =>
            /\ fit_start' = postfit_model
            /\ fit_start'.gen >= 1
            /\ fit_start' # get_model
            /\ prefit_model' = IF last'.out = "ok" THEN postfit_model ELSE fit_start'
            /\ prefit_resids' = postfit_resids]_vars

C7_Witness ==
    /\ last = Call("fit", "ok")
    /\ fit_start.gen >= 1
    /\ prefit_model = fit_start
    /\ postfit_model.gen = fit_start.gen + 1

jump_state(st) == [jumps |-> st.prefit_model.jumps, flags |-> st.flags]

\* C9: for every selection, two add_jump calls in a row with that selection
\* leave the jump ids and the jump flags of every TOA as they were.
C9_JumpTwiceRestores ==
    \A selected \in JumpMasks :
        \A r1 \in {add_jump_result(Session, selected)} :
            \A r2 \in {add_jump_result(r1.st, selected)} :
                (r1.out # "raise" /\ r2.out # "raise")
                    => jump_state(r2.st) = jump_state(Session)

jump_members(num) == {i \in index_set(all_toas) : num \in flags[i]}

\* C10: no two jumps of the model, whatever their ids, have the same set of
\* TOAs.
C10_NoTwoJumpsSameToas ==
    \A j, k \in prefit_model.jumps :
        j # k => jump_members(j) # jump_members(k)

\* The indices of the rows of the full table that a mask marks.
marked(selected) == {all_toas.rows[p].index : p \in {q \in 1 .. Len(selected) : selected[q]}}

C12_JumpsMirroredWhenFitted ==
    [][(last'.op = "add_jump" /\ fitted) =>
            /\ prefit_model'.jumps = postfit_model'.jumps
            /\ last'.out \in {"first", "added"} =>
                /\ ret'.num \in prefit_model'.jumps \ prefit_model.jumps
                /\ ret'.num \notin prefit_model'.frozen \cup postfit_model'.frozen]_vars

C12_Witness ==
    /\ fitted
    /\ last = Call("add_jump", "added")
    /\ postfit_model.gen = 1
    /\ prefit_model.jumps = {1, 2}
    /\ postfit_model.jumps = {1, 2}

\* C13: an add_jump call on a pre-fit model whose PhaseJump component holds
\* no jump returns None, the value it returns in no other case, and changes
\* neither model nor any jump flag.
C13_EmptyJumpComponent ==
    [][(last'.op = "add_jump" /\ prefit_model.pj /\ prefit_model.jumps = {}) =>
            /\ last'.out = "nojumps"
            /\ ret' = Returned("none", << >>)
            /\ UNCHANGED << prefit_model, postfit_model, flags >>]_vars
       /\ [](last.op = "add_jump" /\ ret.kind = "none" => last.out = "nojumps")

C13_Witness ==
    /\ last = Call("add_jump", "nojumps")
    /\ prefit_model.pj
    /\ prefit_model.jumps = {}
    /\ ret = Returned("none", << >>)


\* C14: an add_phase_wrap(selected, phase) that returns leaves, at every row
\* of the full table, the delta_pulse_number it had (zero when the full table
\* had no such column) plus phase when the mask selects the row and plus
\* nothing when it does not; a fit in between leaves the column of the full
\* table as it is, so the value of a row is the sum of the phases of the
\* calls that selected it.
C14_PhaseWrapAdds ==
    /\ [](\A selected \in CurrentMasks, phase \in Phases :
            \A r \in {add_phase_wrap_result(selected, phase)} :
                r.out = "ok" =>
                    \A p \in 1 .. Len(all_toas.rows) :
                        r.delta_pulse_number.all[all_toas.rows[p].index] =
                            (IF "delta_pulse_number" \in colnames.all
                             THEN delta_pulse_number.all[all_toas.rows[p].index] ELSE 0)
                            + (IF selected[p] THEN phase ELSE 0))
    /\ [][last'.op = "fit" => delta_pulse_number'.all = delta_pulse_number.all]_vars

C14_Witness ==
    /\ last = Call("add_phase_wrap", "ok")
    /\ fitted
    /\ "delta_pulse_number" \in colnames.all
    /\ delta_pulse_number.all[0] = 2
    /\ delta_pulse_number.all[1] = -1
    /\ delta_pulse_number.all[2] = 0


\* The operations that end with update_resids.
UpdatingOps == {"add_phase_wrap", "reset_model", "reset_TOAs", "resetAll"}

ChangingOps ==
    {"delete_TOAs", "add_jump", "add_phase_wrap", "fit", "reset_model", "reset_TOAs",
     "resetAll"}

\* C16: after every returned operation that changes the full table or a
\* model, the pre-fit residuals are the ones of the current full table and
\* the current pre-fit model, one entry per TOA of the full table, and in a
\* fitted session the post-fit residuals are the ones of the current full
\* table and the current post-fit model.
C16_ResidualsNeverStale ==
    (last.op \in ChangingOps /\ last.out # "raise" /\ ~all_toas.none) =>
        /\ ~prefit_resids.none
        /\ prefit_resids.toas = index_column(all_toas)
        /\ prefit_resids.model = prefit_model
        /\ fitted =>
            /\ ~postfit_resids.none
            /\ postfit_resids.toas = index_column(all_toas)
            /\ postfit_resids.model = postfit_model


\* The masks that are not as long as the full table is (and not empty).
WrongMasks == UNION {Masks(n) : n \in (1 .. (NToas + 1)) \ {Len(all_toas.rows)}}

\* C17: in every state with a full table, a delete_TOAs call and an
\* add_phase_wrap call with a mask that is not as long as the full table
\* raise; the first leaves the deleted set and both tables as they are, the
\* second the columns of both tables and the tracking mode.
C17_WrongLengthRejected ==
    ~all_toas.none =>
        \A selected \in WrongMasks :
            /\ \A indices \in SUBSET Indices :
                \A r \in {delete_TOAs_result(indices, selected)} :
                    /\ r.out = "raise"
                    /\ r.deleted = deleted
                    /\ r.all_toas = all_toas
                    /\ r.selected_toas = selected_toas
            /\ \A phase \in Phases :
                \A r \in {add_phase_wrap_result(selected, phase)} :
                    /\ r.out = "raise"
                    /\ r.colnames = colnames
                    /\ r.delta_pulse_number = delta_pulse_number
                    /\ r.use_pulse_numbers = use_pulse_numbers


ResetOps == {"reset_model", "reset_TOAs", "resetAll"}

\* C19: after a fit that returns, the session holds no random residuals and
\* no fake TOAs but those that fit made from its own post-fit model; after a
\* reset it holds none.
C19_EnsembleDiscarded ==
    /\ (last.op = "fit" /\ last.out = "ok") =>
        /\ random_resids.none \/ random_resids.model = postfit_model
        /\ fake_toas.none \/ fake_toas.model = postfit_model
    /\ last.op \in ResetOps => (random_resids.none /\ fake_toas.none)


\* The factor f has the value num / den.
is_factor(f, num, den) == f.num * den = num * f.den

\* C20: for the span of the selected TOAs, the factors and the point count
\* chosen before the cap are those of the table: below 30 days (4, 400), from
\* 30 to below 90 (2, 300), from 90 to below 200 (1, 300), from 200 to below
\* 400 (0.5, 200), from 400 on (1.0, 250), the left factor equal to the right
\* one; the fake TOAs a fit makes have that point count and that left factor.
C20_RegimeTable ==
    (~selected_toas.none /\ Len(selected_toas.rows) > 0) =>
        \A span \in {spanMJDs(selected_toas)} :
            \A r \in {regime(span)} :
                /\ r.ledge = r.redge
                /\ span < 30 => (is_factor(r.redge, 4, 1) /\ r.npoints = 400)
                /\ (30 <= span /\ span < 90) => (is_factor(r.redge, 2, 1) /\ r.npoints = 300)
                /\ (90 <= span /\ span < 200) => (is_factor(r.redge, 1, 1) /\ r.npoints = 300)
                /\ (200 <= span /\ span < 400) => (is_factor(r.redge, 1, 2) /\ r.npoints = 200)
                /\ 400 <= span => (is_factor(r.redge, 1, 1) /\ r.npoints = 250)
                /\ ~fake_toas.none => (fake_toas.npoints = r.npoints /\ fake_toas.ledge = r.ledge)

C20_Witness ==
    /\ last = Call("fit", "ok")
    /\ ~fake_toas.none
    /\ fake_toas.model = postfit_model
    /\ spanMJDs(selected_toas) = 400
    /\ fake_toas.npoints = 250
    /\ is_factor(fake_toas.redge, 1, 1)


\* The right factor fit uses for the selected table when now minus 40 days
\* is nowish.
redge_used(nowish) ==
    capped_redge(max_of(get_mjds(selected_toas)), spanMJDs(selected_toas),
                 regime(spanMJDs(selected_toas)).redge, nowish)

has_selected == ~selected_toas.none /\ Len(selected_toas.rows) > 0

\* C21: for the selected TOAs of every state and every nowish, the right
\* factor is defined and not negative, and the end of the fake TOAs, the last
\* selected MJD plus span times the factor, is not later than nowish.
C21_EndNeverAfterNowish ==
    has_selected =>
        \A nowish \in Nowish :
            \A maxMJD \in {max_of(get_mjds(selected_toas))} :
                \A redge \in {redge_used(nowish)} :
                    /\ redge.den > 0
                    /\ redge.num >= 0
                    /\ maxMJD * redge.den + spanMJDs(selected_toas) * redge.num
                            <= nowish * redge.den

\* C21 (amended): the right factor is defined and not negative; with the
\* last selected TOA not later than nowish the fake TOAs end no later than
\* nowish; with the last selected TOA later than nowish the factor is zero
\* and they end at that TOA, after nowish.  The fake TOAs a fit leaves have
\* such a factor.
C21_EndCappedOrAtLastToa ==
    has_selected =>
        /\ \A nowish \in Nowish :
            \A maxMJD \in {max_of(get_mjds(selected_toas))} :
                \A redge \in {redge_used(nowish)} :
                    /\ redge.den > 0
                    /\ redge.num >= 0
                    /\ maxMJD <= nowish =>
                            maxMJD * redge.den + spanMJDs(selected_toas) * redge.num
                                <= nowish * redge.den
                    /\ maxMJD > nowish => redge.num = 0
        /\ ~fake_toas.none => \E nowish \in Nowish : fake_toas.redge = redge_used(nowish)

C21_Witness ==
    /\ last = Call("fit", "ok")
    /\ ~fake_toas.none
    /\ spanMJDs(selected_toas) = 100
    /\ max_of(get_mjds(selected_toas)) = 100
    /\ fake_toas.redge = Frac(0, 1)


\* C22: for the fake TOAs fit makes of the selected TOAs of every state, for
\* every nowish, the first fake TOA at or after the earliest selected TOA and
\* the first at or after the latest one exist, and their indices are in
\* order and within the fake TOAs; the window of the random residuals a fit
\* has stored is such a window of the fake TOAs stored with them.
C22_WindowContained ==
    /\ has_selected =>
        \A nowish \in Nowish :
            \A ft \in {fake_toas_of(selected_toas, postfit_model, nowish)} :
                \A span \in {spanMJDs(selected_toas)} :
                    /\ 0 <= start_index(ft, span)
                    /\ start_index(ft, span) <= end_index(ft, span)
                    /\ end_index(ft, span) < ft.npoints
    /\ ~random_resids.none =>
        /\ ~fake_toas.none
        /\ 0 <= random_resids.start_index
        /\ random_resids.start_index <= random_resids.end_index
        /\ random_resids.end_index < fake_toas.npoints

C22_Witness ==
    /\ last = Call("fit", "ok")
    /\ ~random_resids.none
    /\ spanMJDs(selected_toas) = 100
    /\ fake_toas.redge = Frac(0, 1)
    /\ random_resids.start_index > 0
    /\ random_resids.end_index = fake_toas.npoints - 1

\* C23: in every reachable state of a component that validates,
\* add_wavex_component with index=None returns normally, the index it returns
\* is new, is the largest index in use plus one when an index is in use, and
\* the WXFREQ_, WXSIN_ and WXCOS_ parameters of that index are added.
C23_NextIndexAssigned ==
    ~missing_epoch =>
        \A freq_none \in BOOLEAN :
            \A r \in {add_wavex_component_result(wavex, missing_epoch, freq_none, NoIndex)} :
                /\ r.out = "ok"
                /\ Len(r.ret) = 1
                /\ r.ret[1] \notin wavex.WXFREQ_
                /\ wavex.WXFREQ_ # {} => r.ret[1] = max_of(wavex.WXFREQ_) + 1
                /\ r.c.WXFREQ_ = wavex.WXFREQ_ \cup {r.ret[1]}
                /\ r.c.WXSIN_ = wavex.WXSIN_ \cup {r.ret[1]}
                /\ r.c.WXCOS_ = wavex.WXCOS_ \cup {r.ret[1]}

\* C23, while an index is in use: the same, in the states with a component.
C23_NextIndexWhileInUse == wavex.WXFREQ_ # {} => C23_NextIndexAssigned

\* A call with index=None made after a removal, with components left.
C23_Witness ==
    /\ wxlast.op = "add_wavex_component"
    /\ wxlast.out = "ok"
    /\ wxlast.ret # << >>
    /\ \E i \in 1 .. MaxIndex : i < wxlast.ret[1] - 1 /\ i \notin wavex.WXFREQ_

\* C24: after a fit that returns, the delta_pulse_number of every row of the
\* full table and of every row of the selected table is zero.
C24_DeltasZeroAfterFit ==
    last = Call("fit", "ok") =>
        /\ \A i \in index_set(all_toas) : delta_pulse_number.all[i] = 0
        /\ \A i \in index_set(selected_toas) : delta_pulse_number.sel[i] = 0

\* C24, the selected table alone: its delta_pulse_number is zero after a fit
\* that returns.
C24_SelectedDeltasZeroAfterFit ==
    last = Call("fit", "ok") =>
        \A i \in index_set(selected_toas) : delta_pulse_number.sel[i] = 0

\* C25: in every state reached by add_wavex_component, add_wavex_components
\* and remove_wavex_component calls, returning or raising, the WXFREQ_, WXSIN_
\* and WXCOS_ parameters carry the same indices; and add_wavex_component with
\* an index in use raises ValueError and leaves the component as it was.
C25_IndexSetsEqual ==
    /\ wavex.WXFREQ_ = wavex.WXSIN_
    /\ wavex.WXSIN_ = wavex.WXCOS_
    /\ \A freq_none \in BOOLEAN, i \in wavex.WXFREQ_ :
            \A r \in {add_wavex_component_result(wavex, missing_epoch, freq_none, Explicit(i))} :
                r.out = "ValueError" /\ r.c = wavex

\* A removal that raised after it had removed the last component, and a
\* batch that raised after it had added one.
C25_Witness ==
    \/ /\ wxlast.op = "remove_wavex_component"
       /\ wxlast.out = "ValueError"
       /\ wavex.WXFREQ_ = {}
    \/ /\ wxlast.op = "add_wavex_components"
       /\ wxlast.out = "ValueError"
       /\ wavex.WXFREQ_ = {1, 3}

\* C26: a delete_TOAs(indices, mask) called on a session with its two tables
\* leaves a full table that holds exactly the rows it held before whose index
\* is not in indices, and returns a mask; when every remaining row is deleted
\* the full table is left empty and the mask returned has length zero.
C26_FullSetAfterDelete ==
    (~all_toas.none /\ ~selected_toas.none) =>
        \A indices \in SUBSET Indices, selected \in CurrentMasks :
            \A r \in {delete_TOAs_result(indices, selected)} :
                /\ ~r.all_toas.none
                /\ rows_of(r.all_toas) = {row \in rows_of(all_toas) : row.index \notin indices}
                /\ r.ret.kind = "mask"
                /\ index_set(all_toas) \subseteq indices => r.ret.mask = << >>

\* C26, while a row remains: the full table is left with exactly the rows it
\* held before whose index is not in indices.
C26_SurvivorsKept ==
    (~all_toas.none /\ ~selected_toas.none) =>
        \A indices \in SUBSET Indices, selected \in CurrentMasks :
            \A r \in {delete_TOAs_result(indices, selected)} :
                ~(index_set(all_toas) \subseteq indices) =>
                    /\ ~r.all_toas.none
                    /\ rows_of(r.all_toas) =
                           {row \in rows_of(all_toas) : row.index \notin indices}

\* C27: after a delete_TOAs call that returns and leaves a row in the full
\* table, the selected table has a row too.
C27_SelectionNeverEmptied ==
    (/\ last.op = "delete_TOAs"
     /\ last.out # "raise"
     /\ ~all_toas.none
     /\ Len(all_toas.rows) >= 1)
        => (~selected_toas.none /\ Len(selected_toas.rows) >= 1)

\* C28: in every state of a session every index of the selected table is an
\* index of the full table.
C28_SelectedWithinFull == index_set(selected_toas) \subseteq index_set(all_toas)

\* A deletion that left a selection of some, not all, rows of the full table.
C28_Witness ==
    /\ last.op = "delete_TOAs"
    /\ deleted # {}
    /\ index_set(selected_toas) # {}
    /\ index_set(selected_toas) # index_set(all_toas)

\* C29: in every state of a session every index that is in the full table
\* and in the selected table has the same delta_pulse_number in both.
C29_ViewsAgree ==
    \A i \in index_set(all_toas) \cap index_set(selected_toas) :
        delta_pulse_number.all[i] = delta_pulse_number.sel[i]

\* C30: in every state of a session every jump id in the jump flag of a row
\* of the full table is a jump of the pre-fit model, and, while no TOA of the
\* tim file is deleted, every jump of the pre-fit model is in the jump flag
\* of a row of the full table.
C30_FlagsMatchJumps ==
    /\ \A i \in index_set(all_toas) : flags[i] \subseteq prefit_model.jumps
    /\ deleted = {} => \A j \in prefit_model.jumps : jump_members(j) # {}

\* The indices of a list are pairwise distinct.
distinct(seq) == \A p, q \in DOMAIN seq : p # q => seq[p] # seq[q]

\* C31: in every reachable state of a component, add_wavex_components called
\* with a batch of None and explicit indices either raises ValueError or
\* returns indices that are pairwise distinct and were not in use before the
\* call.
C31_NoIndexTwice ==
    \A wxfreqs \in Batches(BOOLEAN), amps_none \in BOOLEAN :
        \A indices \in [1 .. Len(wxfreqs) -> IndexArgs] :
            \A r \in {add_wavex_components_result(wavex, missing_epoch, wxfreqs, indices,
                                                   amps_none, TRUE)} :
                \/ r.out = "ValueError"
                \/ /\ distinct(r.ret)
                   /\ \A p \in DOMAIN r.ret : r.ret[p] \notin wavex.WXFREQ_

\* C31, for amplitudes that are numbers: the same.
C31_NoIndexTwiceWithAmplitudes ==
    \A wxfreqs \in Batches(BOOLEAN) :
        \A indices \in [1 .. Len(wxfreqs) -> IndexArgs] :
            \A r \in {add_wavex_components_result(wavex, missing_epoch, wxfreqs, indices,
                                                   FALSE, TRUE)} :
                \/ r.out = "ValueError"
                \/ /\ distinct(r.ret)
                   /\ \A p \in DOMAIN r.ret : r.ret[p] \notin wavex.WXFREQ_
====
